---- MODULE Spec2Model ----
(***************************************************************************)
(* Keyboard control of the human agent                                     *)
(* (src/leaderboard/autoagents/human_agent.py, class KeyboardControl).     *)
(*                                                                         *)
(* Numbers.  Every float of the controller is a decimal with at most five  *)
(* digits after the point, so the model keeps them as integers in units    *)
(* of 1e-5: 0.7 is 70000, 0.05 is 5000, 1.0 is 100000.  The elapsed time   *)
(* is in whole milliseconds, so 3e-4 * milliseconds is 30 * ms units and   *)
(* 1.4 times that is 42 * ms units.                                        *)
(*                                                                         *)
(* A run.  The endpoint file starts in one of a few states; controllers    *)
(* are then constructed, ticked and torn down one after the other.  Once   *)
(* a recording session has been constructed, the sessions after it replay. *)
(* A recording session is driven with the key sets of RecKeys and builds a  *)
(* log of at most MaxLog records; a live session is driven with KeySets     *)
(* for as long as it likes.  A playback session is ticked with the key     *)
(* sets of RecKeys held, which it never reads.                             *)
(*                                                                         *)
(* The decay run.  How many ticks bring the steer cache to exactly 0 is    *)
(* decided by the rounding of the floats, which the decimals leave out.    *)
(* DecaySpec follows the cache of one controller as the binary64 number    *)
(* it is, under elapsed times that are floats.                             *)
(***************************************************************************)
EXTENDS Integers, Sequences, FiniteSets

\* ------------------------------------------------------------- bounds
\* Longest session log a recording session builds.
MaxLog == 2
\* Most primary keys held down at once in a live session (or all of them).
MaxHeld == 2
\* Most ticks of a decay run.
MaxRun == 202

\* ---------------------------------------------------------- constants
\* throttle while K_UP / K_w is held (0.7)
ThrottleOn == 70000
\* brake while K_DOWN / K_s is held (1.0)
BrakeOn == 100000
\* bound of the steer cache (0.7)
SteerMax == 70000
\* first deflection from a centred wheel (0.05)
SteerJump == 5000
\* one decimal digit (0.1), the grain of round(..., 1)
Tenth == 10000

\* The keys _parse_vehicle_keys reads: one key per function, and the second
\* key four of the functions accept.
PrimaryKeys == {"K_q", "K_UP", "K_LEFT", "K_RIGHT", "K_DOWN", "K_SPACE"}

AlternateKeys == {"K_w", "K_a", "K_d", "K_s"}

Keys == PrimaryKeys \cup AlternateKeys

\* pygame.key.get_pressed(): the keys held down at a tick.  Up to MaxHeld
\* primary keys, each alternate key alone, or every function at once.
KeySets ==
  {ks \in SUBSET PrimaryKeys : Cardinality(ks) <= MaxHeld}
    \cup {{k} : k \in AlternateKeys} \cup {PrimaryKeys}

\* The key sets a recording or playback session is driven with: nothing
\* held, each key alone, both steering keys, and every function at once.
RecKeys ==
  {{}} \cup {{k} : k \in Keys} \cup {{"K_LEFT", "K_RIGHT"}}
       \cup {PrimaryKeys}

\* timestamp * 1000: the elapsed milliseconds of a tick.
Elapsed == {0, 500, 3000}

\* The modes a configuration file selects; no file selects "normal".
Modes == {"normal", "log", "playback"}

VARIABLES
  phase,        \* "none" | "running" | "failed" (__init__ raised) | "closed" (__del__ ran)
  mode,         \* self._mode
  control,      \* self._control, a carla.VehicleControl
  steer_cache,  \* self._steer_cache
  log_data,     \* self._log_data['records']
  control_list, \* self._control_list
  index,        \* self._index
  file,         \* the content of the endpoint file
  ret,          \* <<v>>: the vector the last parse_events returned; <<>> before
  exhausted,    \* the last parse_events printed "JSON file has no more entries"
  opens,        \* times this controller called open(self._endpoint, 'w')
  del_io,       \* outcome of the write in __del__: "none" | "ok" | "open_fails" | "write_fails"
  prev_zone,    \* where self._steer_cache was before the last tick, see Zone
  pressed,      \* the keys the last tick read from the keyboard
  recorded,     \* a recording session has been constructed in this run
  rec,          \* the vectors the recording session's ticks returned, in order
  flushed,      \* the endpoint file holds the recording session's dump
  caller,       \* what the code that dropped the controller saw of __del__:
                \* "none" (not torn down) | "normal" | "error"
  cache64,      \* self._steer_cache as the float it is (DecaySpec)
  run_ms,       \* timestamp * 1000 of the ticks of the decay run; 0 before it
  run_ticks     \* ticks of the decay run so far

controller_vars ==
  << phase, mode, control, steer_cache, log_data, control_list, index, file, ret,
     exhausted, opens, del_io, prev_zone, pressed, recorded, rec, flushed, caller >>

vars == << controller_vars, cache64, run_ms, run_ticks >>

\* ------------------------------------------------------ VehicleControl
\* carla.VehicleControl(): the default vector HumanAgent.setup passes in.
DefaultControl ==
  [ throttle |-> 0, steer |-> 0, brake |-> 0, hand_brake |-> FALSE,
    reverse |-> FALSE, manual_gear_shift |-> FALSE, gear |-> 0 ]

ControlFields ==
  {"throttle", "steer", "brake", "hand_brake", "reverse", "manual_gear_shift", "gear"}

\* ------------------------------------------------- _parse_vehicle_keys
Abs(x) == IF x < 0 THEN -x ELSE x

Min(a, b) == IF a < b THEN a ELSE b

Max(a, b) == IF a > b THEN a ELSE b

\* (mutant) the two gears the wrong way round
ToggleGearSwapped(ctrl) ==
  LET g == IF ctrl.reverse THEN -1 ELSE 1
  IN  [ctrl EXCEPT !.gear = g, !.reverse = (g < 0)]

\* (mutant) the toggle goes back to neutral instead of forward
ToggleGearNeutral(ctrl) ==
  LET g == IF ctrl.reverse THEN 0 ELSE -1
  IN  [ctrl EXCEPT !.gear = g, !.reverse = (g < 0)]

\* if keys[K_q]: gear = 1 if reverse else -1; reverse = gear < 0
ToggleGear(ctrl) ==
  LET g == IF ctrl.reverse THEN 1 ELSE -1
  IN  [ctrl EXCEPT !.gear = g, !.reverse = (g < 0)]

GearKey(keys) == "K_q" \in keys

\* (mutant) and for or
ThrottleKeyBoth(keys) == "K_UP" \in keys /\ "K_w" \in keys

\* keys[K_UP] or keys[K_w]
ThrottleKey(keys) == "K_UP" \in keys \/ "K_w" \in keys

Throttle(keys) == IF ThrottleKey(keys) THEN ThrottleOn ELSE 0

\* keys[K_LEFT] or keys[K_a]
LeftKey(keys) == "K_LEFT" \in keys \/ "K_a" \in keys

\* keys[K_RIGHT] or keys[K_d]
RightKey(keys) == "K_RIGHT" \in keys \/ "K_d" \in keys

\* 1.0 if keys[K_DOWN] or keys[K_s] else 0.0
Brake(keys) == IF "K_DOWN" \in keys \/ "K_s" \in keys THEN BrakeOn ELSE 0

\* keys[K_SPACE]
HandBrake(keys) == "K_SPACE" \in keys

\* steer_increment = 3e-4 * milliseconds
SteerIncrement(ms) == 30 * ms

\* steer_increment * 1.4
DecayStep(inc) == (inc * 14) \div 10

\* (mutant) no snap to the centre: a positive cache ramps down
SteerLeftNoSnap(cache, inc) ==
  IF cache = 0 THEN -SteerJump ELSE cache - inc

\* (mutant) the ramp with the wrong sign
SteerLeftWrongWay(cache, inc) ==
  IF cache > 0 THEN 0
  ELSE IF cache = 0 THEN -SteerJump
  ELSE cache + inc

\* the branch taken while a steer-left key is held
SteerLeft(cache, inc) ==
  IF cache > 0 THEN 0
  ELSE IF cache = 0 THEN -SteerJump
  ELSE cache - inc

\* the branch taken while a steer-right key (and no steer-left key) is held
SteerRight(cache, inc) ==
  IF cache < 0 THEN 0
  ELSE IF cache = 0 THEN SteerJump
  ELSE cache + inc

\* (mutant) the decay without max(0, ...) and min(0, ...)
SteerDecayOvershoot(cache, inc) ==
  IF cache > 0 THEN cache - DecayStep(inc) ELSE cache + DecayStep(inc)

\* the branch taken while no steering key is held
SteerDecay(cache, inc) ==
  IF cache > 0 THEN Max(0, cache - DecayStep(inc))
  ELSE Min(0, cache + DecayStep(inc))

\* (mutant) the clamp without its lower bound
ClampSteerNoFloor(cache) == Min(SteerMax, cache)

\* min(0.7, max(-0.7, self._steer_cache))
ClampSteer(cache) == Min(SteerMax, Max(-SteerMax, cache))

\* where a cache value lies: on a bound, at the centre, or between
Zone(cache) ==
  IF cache = -SteerMax THEN "floor"
  ELSE IF cache < 0 THEN "neg"
  ELSE IF cache = 0 THEN "zero"
  ELSE IF cache = SteerMax THEN "ceil"
  ELSE "pos"

\* (mutant) the right key is looked at before the left key
NextSteerCacheRightFirst(cache, keys, ms) ==
  LET inc == SteerIncrement(ms)
  IN  ClampSteer(IF RightKey(keys) THEN SteerRight(cache, inc)
                 ELSE IF LeftKey(keys) THEN SteerLeft(cache, inc)
                 ELSE SteerDecay(cache, inc))

\* self._steer_cache after the steering block
NextSteerCache(cache, keys, ms) ==
  LET inc == SteerIncrement(ms)
  IN  ClampSteer(IF LeftKey(keys) THEN SteerLeft(cache, inc)
                 ELSE IF RightKey(keys) THEN SteerRight(cache, inc)
                 ELSE SteerDecay(cache, inc))

\* round(x, 1) of Python 3 on the double nearest to x.  Off a tie it is the
\* nearest tenth.  On a tie n.x5 the double decides: 0.05, 0.45, 0.55 and 0.65
\* lie above the decimal and round away from zero, 0.15 and 0.35 lie below it
\* and 0.25 is exact with an even neighbour below, so they round towards zero.
TieAwayFromZero(q) == q \in {0, 4, 5, 6}

Round1(x) ==
  LET a == Abs(x)
      q == a \div Tenth
      r == a % Tenth
      m == IF 2 * r > Tenth \/ (2 * r = Tenth /\ TieAwayFromZero(q))
           THEN (q + 1) * Tenth ELSE q * Tenth
  IN  IF x < 0 THEN -m ELSE m

\* (mutant) the brake is only ever set, never released
ParseVehicleKeysStickyBrake(ctrl, cache, keys, ms) ==
  LET c1 == IF GearKey(keys) THEN ToggleGear(ctrl) ELSE ctrl
  IN  [c1 EXCEPT !.throttle = Throttle(keys),
                 !.steer = Round1(NextSteerCache(cache, keys, ms)),
                 !.brake = IF Brake(keys) > 0 THEN Brake(keys) ELSE ctrl.brake,
                 !.hand_brake = HandBrake(keys)]

\* self._control after _parse_vehicle_keys(keys, milliseconds)
ParseVehicleKeys(ctrl, cache, keys, ms) ==
  LET c1 == IF GearKey(keys) THEN ToggleGear(ctrl) ELSE ctrl
  IN  [c1 EXCEPT !.throttle = Throttle(keys),
                 !.steer = Round1(NextSteerCache(cache, keys, ms)),
                 !.brake = Brake(keys),
                 !.hand_brake = HandBrake(keys)]

\* ------------------------------------------------- binary64 arithmetic
\* The steer cache, the increment and the elapsed time are Python floats:
\* IEEE 754 binary64.  A float is modelled as s * m * 2^e with s its sign
\* (0 for zero), m an odd natural number below 2^53 and e an integer.  m is
\* written in limbs of 15 bits, least significant first, so that no
\* intermediate result leaves the 32-bit integers.
\*
\* F applied to the value of a (and b): an operand is evaluated once, before
\* the operation reads it limb by limb.
Eval1(F(_), a) == CHOOSE r \in {F(x) : x \in {a}} : TRUE

Eval2(F(_, _), a, b) == CHOOSE r \in {F(x, y) : x \in {a}, y \in {b}} : TRUE

Base == 32 * 1024

Pow2(k) == 2 ^ k

Limb(a, i) == IF i >= 1 /\ i <= Len(a) THEN a[i] ELSE 0

\* a without its leading zero limbs
BigTop(a) ==
  IF \A i \in 1..Len(a) : a[i] = 0 THEN 0
  ELSE CHOOSE i \in 1..Len(a) : a[i] # 0 /\ \A j \in (i + 1)..Len(a) : a[j] = 0

BigNorm(a) == Eval1(LAMBDA x : SubSeq(x, 1, BigTop(x)), a)

RECURSIVE BigAddFrom(_, _, _, _)
BigAddFrom(a, b, i, carry) ==
  IF i > Len(a) /\ i > Len(b)
  THEN IF carry = 0 THEN <<>> ELSE <<carry>>
  ELSE Eval1(LAMBDA t : <<t % Base>> \o BigAddFrom(a, b, i + 1, t \div Base),
             Limb(a, i) + Limb(b, i) + carry)

BigAdd(a, b) == Eval2(LAMBDA x, y : BigAddFrom(x, y, 1, 0), a, b)

\* a - b for a >= b
RECURSIVE BigSubFrom(_, _, _, _)
BigSubFrom(a, b, i, borrow) ==
  IF i > Len(a) THEN <<>>
  ELSE Eval1(LAMBDA t : IF t < 0
                        THEN <<t + Base>> \o BigSubFrom(a, b, i + 1, 1)
                        ELSE <<t>> \o BigSubFrom(a, b, i + 1, 0),
             a[i] - Limb(b, i) - borrow)

BigSub(a, b) == BigNorm(Eval2(LAMBDA x, y : BigSubFrom(x, y, 1, 0), a, b))

RECURSIVE BigLessFrom(_, _, _)
BigLessFrom(a, b, i) ==
  IF i = 0 THEN FALSE
  ELSE IF a[i] # b[i] THEN a[i] < b[i]
  ELSE BigLessFrom(a, b, i - 1)

BigLess(a, b) ==
  Eval2(LAMBDA x, y : IF Len(x) # Len(y) THEN Len(x) < Len(y)
                      ELSE BigLessFrom(x, y, Len(x)),
        a, b)

\* a * k for 0 <= k < Base
RECURSIVE BigMulSmallFrom(_, _, _, _)
BigMulSmallFrom(a, k, i, carry) ==
  IF i > Len(a)
  THEN IF carry = 0 THEN <<>> ELSE <<carry>>
  ELSE Eval1(LAMBDA t : <<t % Base>> \o BigMulSmallFrom(a, k, i + 1, t \div Base),
             a[i] * k + carry)

BigMulSmall(a, k) ==
  BigNorm(Eval2(LAMBDA x, y : BigMulSmallFrom(x, y, 1, 0), a, k))

\* a * Base^n
BigShiftLimbs(a, n) ==
  Eval1(LAMBDA x : IF x = <<>> THEN x ELSE [i \in 1..n |-> 0] \o x, a)

RECURSIVE BigMulFrom(_, _, _)
BigMulFrom(a, b, i) ==
  IF i > Len(b) THEN <<>>
  ELSE BigAdd(BigShiftLimbs(BigMulSmall(a, b[i]), i - 1), BigMulFrom(a, b, i + 1))

BigMul(a, b) == Eval2(LAMBDA x, y : BigMulFrom(x, y, 1), a, b)

\* a * 2^k
BigShl(a, k) == BigMulSmall(BigShiftLimbs(a, k \div 15), Pow2(k % 15))

\* a \div 2^k
BigShr(a, k) ==
  Eval2(LAMBDA x, n :
          IF Len(x) <= n \div 15 THEN <<>>
          ELSE BigNorm([i \in 1..(Len(x) - (n \div 15)) |->
                          (x[(n \div 15) + i] \div Pow2(n % 15))
                            + (Limb(x, (n \div 15) + i + 1) % Pow2(n % 15))
                                * Pow2(15 - (n % 15))]),
        a, k)

\* the number of bits of a > 0
BigBits(a) ==
  Eval1(LAMBDA x :
          15 * (Len(x) - 1)
            + CHOOSE k \in 1..15 : Pow2(k - 1) <= x[Len(x)] /\ x[Len(x)] < Pow2(k),
        a)

\* the number of zero bits a > 0 ends in
BigTrailingZeros(a) ==
  Eval1(LAMBDA x :
          Eval1(LAMBDA z :
                  15 * (z - 1) + CHOOSE k \in 0..14 :
                                   x[z] % Pow2(k) = 0 /\ x[z] % Pow2(k + 1) # 0,
                CHOOSE z \in 1..Len(x) : x[z] # 0 /\ \A j \in 1..(z - 1) : x[j] = 0),
        a)

BigOdd(a) == Eval1(LAMBDA x : x # <<>> /\ x[1] % 2 = 1, a)

F64Zero == [s |-> 0, m |-> <<>>, e |-> 0]

\* s * m * 2^e with m made odd
F64Canon(s, m, e) ==
  Eval1(LAMBDA x :
          IF x = <<>> THEN F64Zero
          ELSE Eval1(LAMBDA z : [s |-> s, m |-> BigShr(x, z), e |-> e + z],
                     BigTrailingZeros(x)),
        m)

\* q * 2^k + rest rounded to a multiple of 2^k, ties to even, over 2^k
BigRoundShr(m, k) ==
  Eval2(LAMBDA q, half :
          Eval1(LAMBDA rest :
                  IF BigLess(half, rest) \/ (rest = half /\ BigOdd(q))
                  THEN BigAdd(q, <<1>>) ELSE q,
                BigSub(m, BigShl(q, k))),
        BigShr(m, k), BigShl(<<1>>, k - 1))

\* s * m * 2^e rounded to 53 significant bits, ties to even
F64Round(s, m, e) ==
  Eval1(LAMBDA x :
          IF x = <<>> THEN F64Zero
          ELSE Eval1(LAMBDA k : IF k <= 0 THEN F64Canon(s, x, e)
                                ELSE F64Canon(s, BigRoundShr(x, k), e + k),
                     BigBits(x) - 53),
        m)

F64Neg(x) == Eval1(LAMBDA v : [v EXCEPT !.s = -v.s], x)

F64Mul(x, y) ==
  Eval2(LAMBDA u, v : F64Round(u.s * v.s, BigMul(u.m, v.m), u.e + v.e), x, y)

\* u + v for u, v other than 0, their mantissas brought to the exponent e
F64AddAt(u, v, e) ==
  Eval2(LAMBDA a, b :
          IF u.s = v.s THEN F64Round(u.s, BigAdd(a, b), e)
          ELSE IF BigLess(a, b) THEN F64Round(v.s, BigSub(b, a), e)
          ELSE F64Round(u.s, BigSub(a, b), e),
        BigShl(u.m, u.e - e), BigShl(v.m, v.e - e))

F64Add(x, y) ==
  Eval2(LAMBDA u, v :
          IF u.s = 0 THEN v
          ELSE IF v.s = 0 THEN u
          ELSE F64AddAt(u, v, IF u.e < v.e THEN u.e ELSE v.e),
        x, y)

F64Sub(x, y) == F64Add(x, F64Neg(y))

\* x < y
F64Less(x, y) == F64Sub(x, y).s < 0

F64Max(x, y) == Eval2(LAMBDA u, v : IF F64Less(u, v) THEN v ELSE u, x, y)

F64Min(x, y) == Eval2(LAMBDA u, v : IF F64Less(v, u) THEN v ELSE u, x, y)

\* 3e-4 = 0x1.3a92a30553261p-12
IncrementPerMs64 == [s |-> 1, m |-> <<12897, 24746, 9384, 157>>, e |-> -64]

\* 1.4 = 0x1.6666666666666p+0
DecayFactor64 == [s |-> 1, m |-> <<13107, 26214, 19660, 89>>, e |-> -51]

\* 0.7 = 0x1.6666666666666p-1
SteerMax64 == [s |-> 1, m |-> <<13107, 26214, 19660, 89>>, e |-> -52]

\* 0.05 = 0x1.999999999999ap-5
SteerJump64 == [s |-> 1, m |-> <<19661, 6553, 13107, 102>>, e |-> -56]

\* steer_increment = 3e-4 * milliseconds
SteerIncrement64(ms) == F64Mul(IncrementPerMs64, ms)

\* (mutant) the decay at the pace of the ramp
DecayStep64Plain(inc) == inc

\* steer_increment * 1.4
DecayStep64(inc) == F64Mul(inc, DecayFactor64)

SteerLeft64(cache, inc) ==
  IF cache.s > 0 THEN F64Zero
  ELSE IF cache.s = 0 THEN F64Neg(SteerJump64)
  ELSE F64Sub(cache, inc)

SteerRight64(cache, inc) ==
  IF cache.s < 0 THEN F64Zero
  ELSE IF cache.s = 0 THEN SteerJump64
  ELSE F64Add(cache, inc)

\* max(0, cache - steer_increment * 1.4), min(0, cache + steer_increment * 1.4)
SteerDecay64(cache, inc) ==
  IF cache.s > 0 THEN F64Max(F64Zero, F64Sub(cache, DecayStep64(inc)))
  ELSE F64Min(F64Zero, F64Add(cache, DecayStep64(inc)))

\* min(0.7, max(-0.7, self._steer_cache))
ClampSteer64(cache) == F64Min(SteerMax64, F64Max(F64Neg(SteerMax64), cache))

\* self._steer_cache after the steering block, as the floats give it
NextSteerCache64(cache, keys, ms) ==
  LET inc == SteerIncrement64(ms)
  IN  ClampSteer64(IF LeftKey(keys) THEN SteerLeft64(cache, inc)
                   ELSE IF RightKey(keys) THEN SteerRight64(cache, inc)
                   ELSE SteerDecay64(cache, inc))

\* ------------------------------------------------------- persistence
\* (mutant) the entry is the seven fields themselves, with no 'control' level
NewRecordFlat(ctrl) ==
  [ throttle |-> ctrl.throttle, steer |-> ctrl.steer, brake |-> ctrl.brake,
    hand_brake |-> ctrl.hand_brake, reverse |-> ctrl.reverse,
    manual_gear_shift |-> ctrl.manual_gear_shift, gear |-> ctrl.gear ]

\* _record_control: the entry appended for the current vector
NewRecord(ctrl) ==
  [ control |->
      [ throttle |-> ctrl.throttle, steer |-> ctrl.steer, brake |-> ctrl.brake,
        hand_brake |-> ctrl.hand_brake, reverse |-> ctrl.reverse,
        manual_gear_shift |-> ctrl.manual_gear_shift, gear |-> ctrl.gear ] ]

\* File contents.  json.dump writes the document {'records': [...]}.
NoFile == [kind |-> "absent"]

Malformed == [kind |-> "malformed"]

JsonFile(doc) == [kind |-> "json", doc |-> doc]

\* json.dump(self._log_data, fd, indent=4, sort_keys=True)
Dump(records) == JsonFile([records |-> records])

\* a session log written before the run
OldRecord ==
  [ control |->
      [ throttle |-> 50000, steer |-> -30000, brake |-> 0, hand_brake |-> TRUE,
        reverse |-> FALSE, manual_gear_shift |-> TRUE, gear |-> 2 ] ]

\* The endpoint before the run: no file, or a log of an earlier run.  (A file
\* that is no JSON arises in the run, from a dump that failed.)
InitFiles == {NoFile, Dump(<<OldRecord>>)}

\* (mutant) throttle and brake read from each other's key
EntryToControlSwapped(e) ==
  [ throttle |-> e.control.brake, steer |-> e.control.steer,
    brake |-> e.control.throttle, hand_brake |-> e.control.hand_brake,
    reverse |-> e.control.reverse,
    manual_gear_shift |-> e.control.manual_gear_shift, gear |-> e.control.gear ]

\* carla.VehicleControl(throttle=entry['control']['throttle'], ...)
EntryToControl(e) ==
  [ throttle |-> e.control.throttle, steer |-> e.control.steer,
    brake |-> e.control.brake, hand_brake |-> e.control.hand_brake,
    reverse |-> e.control.reverse,
    manual_gear_shift |-> e.control.manual_gear_shift, gear |-> e.control.gear ]

\* _json_to_control: self._control_list after the loop
JsonToControl(doc) ==
  [i \in 1..Len(doc.records) |-> EntryToControl(doc.records[i])]

\* (mutant) no except clause: a file that is no JSON raises out of __init__
LoadPlaybackStrict(f) ==
  IF f.kind = "json"
  THEN [raised |-> FALSE, list |-> JsonToControl(f.doc)]
  ELSE [raised |-> TRUE, list |-> <<>>]

\* __init__ in playback mode, from self._control_list = [] on: whether it
\* raised, and self._control_list.  open() raises FileNotFoundError on a
\* missing file; json.JSONDecodeError is caught and passed over.
LoadPlayback(f) ==
  CASE f.kind = "absent" -> [raised |-> TRUE, list |-> <<>>]
    [] f.kind = "malformed" -> [raised |-> FALSE, list |-> <<>>]
    [] f.kind = "json" -> [raised |-> FALSE, list |-> JsonToControl(f.doc)]

\* (mutant) past the end the replay starts over
ParseJsonControlWraps(ctrl, idx, list) ==
  IF idx < Len(list)
  THEN [control |-> list[idx + 1], index |-> idx + 1, exhausted |-> FALSE]
  ELSE IF Len(list) > 0
  THEN [control |-> list[1], index |-> 1, exhausted |-> FALSE]
  ELSE [control |-> ctrl, index |-> idx, exhausted |-> TRUE]

\* (mutant) the cursor moves on past the end
ParseJsonControlRunsOn(ctrl, idx, list) ==
  IF idx < Len(list)
  THEN [control |-> list[idx + 1], index |-> idx + 1, exhausted |-> FALSE]
  ELSE [control |-> ctrl, index |-> idx + 1, exhausted |-> TRUE]

\* _parse_json_control: the vector, the cursor and whether it printed
\* "JSON file has no more entries"
ParseJsonControl(ctrl, idx, list) ==
  IF idx < Len(list)
  THEN [control |-> list[idx + 1], index |-> idx + 1, exhausted |-> FALSE]
  ELSE [control |-> ctrl, index |-> idx, exhausted |-> TRUE]

\* (mutant) the mode is compared with a name no configuration gives
UsesJsonTypo(m) == m = "replay"

\* parse_events: if self._mode == "playback"
UsesJson(m) == m = "playback"

\* (mutant) the vector is cleared once it is recorded
RecordControlClears(ctrl, records) ==
  [control |-> DefaultControl, records |-> Append(records, NewRecord(ctrl))]

\* (mutant) the entry takes the place of the last one
RecordControlOverwrites(ctrl, records) ==
  [control |-> ctrl,
   records |-> IF records = <<>> THEN <<NewRecord(ctrl)>>
               ELSE [records EXCEPT ![Len(records)] = NewRecord(ctrl)]]

\* _record_control: self._control and self._log_data['records'] after it
RecordControl(ctrl, records) ==
  [control |-> ctrl, records |-> Append(records, NewRecord(ctrl))]

\* What leaves __del__.  Python prints an exception raised in __del__ to
\* stderr and drops it: the code that let go of the controller goes on.
DelOutcome(io) == "normal"

\* (mutant) an empty log is not written
WritesOnDelNonEmpty(m, records) == m = "log" /\ records # <<>>

\* (mutant) the mode is not looked at
WritesOnDelAnyMode(m, records) == TRUE

\* __del__: self._mode == "log" and self._log_data.  The second operand is the
\* dict {'records': [...]}, which has a key and so is true whatever the list.
WritesOnDel(m, records) == m = "log"

\* ------------------------------------------------------------- Init
Init ==
  /\ phase = "none"
  /\ mode = "normal"
  /\ control = DefaultControl
  /\ steer_cache = 0
  /\ log_data = <<>>
  /\ control_list = <<>>
  /\ index = 0
  /\ file \in InitFiles
  /\ ret = <<>>
  /\ exhausted = FALSE
  /\ opens = 0
  /\ del_io = "none"
  /\ prev_zone = "zero"
  /\ pressed = {}
  /\ recorded = FALSE
  /\ rec = <<>>
  /\ flushed = FALSE
  /\ caller = "none"
  /\ cache64 = F64Zero
  /\ run_ms = F64Zero
  /\ run_ticks = 0

\* -------------------------------------------------------- __init__
\* What __init__ leaves whatever the mode: a fresh controller around the
\* default vector of HumanAgent.setup.
Fresh(m) ==
  /\ mode' = m
  /\ control' = DefaultControl
  /\ steer_cache' = 0
  /\ log_data' = <<>>
  /\ index' = 0
  /\ ret' = <<>>
  /\ exhausted' = FALSE
  /\ opens' = 0
  /\ del_io' = "none"
  /\ prev_zone' = "zero"
  /\ pressed' = {}
  /\ caller' = "none"

\* KeyboardControl(ctrl, path_to_conf_file) with the mode the file names
Construct(m) ==
  /\ phase \in {"none", "failed", "closed"}
  /\ m # "playback" => ~recorded
  /\ recorded' = (recorded \/ m = "log")
  /\ Fresh(m)
  /\ IF m = "playback"
     THEN LET r == LoadPlayback(file)
          IN  /\ phase' = IF r.raised THEN "failed" ELSE "running"
              /\ control_list' = r.list
     ELSE /\ phase' = "running"
          /\ control_list' = <<>>
  /\ UNCHANGED <<file, rec, flushed>>

\* ------------------------------------------------------ parse_events
\* parse_events(timestamp) with pygame.key.get_pressed() = keys and
\* timestamp * 1000 = ms
ParseEvents(keys, ms) ==
  /\ phase = "running"
  /\ mode = "log" => Len(log_data) < MaxLog
  /\ mode # "normal" => keys \in RecKeys
  /\ \E moved \in
         { IF UsesJson(mode)
           THEN \* _parse_json_control
                ParseJsonControl(control, index, control_list)
           ELSE \* _parse_vehicle_keys
                [ control |-> ParseVehicleKeys(control, steer_cache, keys, ms),
                  index |-> index, exhausted |-> exhausted ] } :
       \E recd \in
           { IF mode = "log"
             THEN RecordControl(moved.control, log_data)
             ELSE [control |-> moved.control, records |-> log_data] } :
         /\ control' = recd.control
         /\ log_data' = recd.records
         /\ rec' = IF mode = "log" THEN Append(rec, recd.control) ELSE rec
         /\ index' = moved.index
         /\ exhausted' = moved.exhausted
         /\ ret' = <<recd.control>>
  /\ IF UsesJson(mode)
     THEN UNCHANGED <<steer_cache, prev_zone, pressed>>
     ELSE /\ steer_cache' = NextSteerCache(steer_cache, keys, ms)
          /\ prev_zone' = Zone(steer_cache)
          /\ pressed' = keys
  /\ UNCHANGED << phase, mode, control_list, file, opens, del_io, recorded,
                  flushed, caller >>

\* ----------------------------------------------------------- __del__
\* The write of __del__ ends in one of: the dump completes; open() raises
\* and the file is as it was; the dump raises after open() truncated the file.
WriteOutcomes == {"ok", "open_fails", "write_fails"}

Del(io) ==
  /\ phase = "running"
  /\ phase' = "closed"
  /\ IF WritesOnDel(mode, log_data)
     THEN /\ opens' = opens + 1
          /\ del_io' = io
          /\ file' = CASE io = "ok" -> Dump(log_data)
                       [] io = "open_fails" -> file
                       [] io = "write_fails" -> Malformed
          /\ flushed' = (io = "ok")
     ELSE /\ io = "ok"
          /\ UNCHANGED <<opens, del_io, file, flushed>>
  /\ caller' = DelOutcome(io)
  \* the object is gone: its fields are read no more
  /\ control' = DefaultControl
  /\ steer_cache' = 0
  /\ log_data' = <<>>
  /\ control_list' = <<>>
  /\ index' = 0
  /\ ret' = <<>>
  /\ exhausted' = FALSE
  /\ prev_zone' = "zero"
  /\ pressed' = {}
  /\ UNCHANGED <<mode, recorded, rec>>

Next ==
  \/ \E m \in Modes :
       Construct(m) /\ UNCHANGED <<cache64, run_ms, run_ticks>>
  \/ \E keys \in KeySets, ms \in Elapsed :
       ParseEvents(keys, ms) /\ UNCHANGED <<cache64, run_ms, run_ticks>>
  \/ \E io \in WriteOutcomes :
       Del(io) /\ UNCHANGED <<cache64, run_ms, run_ticks>>

Spec == Init /\ [][Next]_vars

\* ------------------------------------------------------ the decay run
\* The steer cache of one live or recording controller, followed as the
\* floats it is through the steering block of _parse_vehicle_keys; the
\* vector is not followed here.  The controller is steered for some ticks
\* and then ticked with no steering key held and one elapsed time: the run.
\* Elapsed times of a run, timestamp * 1000 as a float:
\*   8.333333333333334   = 0x1.0aaaaaaaaaaabp+3   (1/120 s)
\*   238.0952380952381   = 0x1.dc30c30c30c31p+7
\*   500.0, 3000.0
\*   1e-13               = 0x1.c25c268497682p-44
Elapsed64 ==
  { [s |-> 1, m |-> <<10923, 21845, 10922, 133>>, e |-> -49],
    [s |-> 1, m |-> <<3121, 24966, 3120, 238>>, e |-> -45],
    [s |-> 1, m |-> <<125>>, e |-> 2],
    [s |-> 1, m |-> <<375>>, e |-> 3],
    [s |-> 1, m |-> <<15169, 26697, 19332, 112>>, e |-> -95] }

\* Elapsed times of the ticks that steer: 500.0 and 3000.0
SteerElapsed64 ==
  { [s |-> 1, m |-> <<125>>, e |-> 2], [s |-> 1, m |-> <<375>>, e |-> 3] }

SteerKeys64 == {{"K_LEFT"}, {"K_RIGHT"}}

\* KeyboardControl(ctrl, path_to_conf_file) of a live or recording controller
Construct64(m) ==
  /\ ~UsesJson(m)
  /\ Construct(m)
  /\ cache64' = F64Zero
  /\ UNCHANGED <<run_ms, run_ticks>>

\* parse_events(timestamp) with timestamp * 1000 = ms, as far as the cache
Tick64(keys, ms) ==
  /\ phase = "running"
  /\ ~UsesJson(mode)
  /\ cache64' = NextSteerCache64(cache64, keys, ms)
  /\ UNCHANGED controller_vars

\* a tick with a steering key held, before the run
Steer64(keys, ms) ==
  /\ run_ms = F64Zero
  /\ Tick64(keys, ms)
  /\ UNCHANGED <<run_ms, run_ticks>>

\* a tick of the run: no steering key held, the elapsed time of the run
Decay64(ms) ==
  /\ run_ms \in {F64Zero, ms}
  /\ run_ticks < MaxRun
  /\ Tick64({}, ms)
  /\ run_ms' = ms
  /\ run_ticks' = run_ticks + 1

DecayNext ==
  \/ \E m \in Modes : Construct64(m)
  \/ \E keys \in SteerKeys64, ms \in SteerElapsed64 : Steer64(keys, ms)
  \/ \E ms \in Elapsed64 : Decay64(ms)

\* HumanAgent.run_step calls parse_events at every step of the simulation:
\* a run that can tick does tick.
RunTick == \E ms \in Elapsed64 : run_ms = ms /\ Decay64(ms)

\* The endpoint file plays no part in the run.
DecayInit == Init /\ file = NoFile

DecaySpec == DecayInit /\ [][DecayNext]_vars /\ WF_vars(RunTick)

\* ============================================================ claims
\* A tick of a live or recording controller: parse_events is the only step
\* that leaves a running controller running.
Running == phase = "running"

KeyMode == mode \in {"normal", "log"}

KeyTick == Running /\ phase' = "running" /\ KeyMode

PlaybackTick == Running /\ phase' = "running" /\ mode = "playback"

\* the controller has ticked at least once
Ticked == Running /\ ret # <<>>

\* ------------------------------------------------------------------ C1
\* C1: in a live or recording controller, from cache = 0 and after every tick
\* with any keys and any elapsed time >= 0, the steer cache lies in
\* [-0.7, 0.7] and so does the exposed steer.
C1_SteerBounds ==
  Running /\ KeyMode =>
    /\ -SteerMax <= steer_cache /\ steer_cache <= SteerMax
    /\ -SteerMax <= control.steer /\ control.steer <= SteerMax

\* a tick ramped past the floor and the clamp brought the cache back to -0.7
C1_Witness ==
  /\ Ticked /\ KeyMode
  /\ prev_zone = "neg" /\ steer_cache = -SteerMax /\ control.steer = -SteerMax

\* ------------------------------------------------------------------ C2
\* C2: after a recording session of N ticks was flushed at teardown, a
\* playback controller built on that file holds N vectors and its tick i
\* returns, field for field, the vector the recording session's tick i
\* returned.
C2_RoundTrip ==
  Running /\ mode = "playback" /\ flushed =>
    /\ Len(control_list) = Len(rec)
    /\ index <= Len(rec)
    /\ \A i \in 1..Len(rec) :
         \A f \in ControlFields : control_list[i][f] = rec[i][f]
    /\ (ret # <<>> /\ ~exhausted) =>
         /\ index >= 1
         /\ \A f \in ControlFields : ret[1][f] = rec[index][f]

\* the replay returned the last of at least two recorded vectors, which differ
C2_Witness ==
  /\ Running /\ mode = "playback" /\ flushed
  /\ Len(rec) >= 2 /\ index = Len(rec) /\ ~exhausted
  /\ rec[1] # rec[2]
  /\ ret = <<rec[index]>>

\* ------------------------------------------------------------------ C3
\* C3: of a playback controller with N >= 1 loaded vectors, ticks 1..N return
\* vectors 1..N in order; tick N+1 and every later tick report that the log
\* is exhausted, do not fail, and return the vector tick N returned.
C3_PlaybackExhaustion ==
  [][ PlaybackTick /\ Len(control_list) >= 1 =>
        IF index < Len(control_list)
        THEN /\ ret' = <<control_list[index + 1]>>
             /\ index' = index + 1
             /\ ~exhausted'
        ELSE /\ exhausted'
             /\ index' = index
             /\ ret # <<>> /\ ret' = ret
             /\ ret' = <<control_list[Len(control_list)]>>
             /\ phase' = "running" ]_vars

\* the tick after the last of two vectors reported the exhausted log
C3_Witness ==
  /\ Running /\ mode = "playback" /\ exhausted
  /\ Len(control_list) >= 2 /\ index = Len(control_list)
  /\ ret = <<control_list[index]>>

\* ------------------------------------------------------------------ C4
\* C4: a live or recording tick with a steer-left key held and cache > 0
\* leaves the cache at exactly 0 whatever the elapsed time; so does a tick
\* with a steer-right key held, no steer-left key held and cache < 0.
SteerLeftHeld(ks) == ks \cap {"K_LEFT", "K_a"} # {}

SteerRightHeld(ks) == ks \cap {"K_RIGHT", "K_d"} # {}

C4_ReversalSnap ==
  [][ KeyTick =>
        /\ (SteerLeftHeld(pressed') /\ steer_cache > 0) => steer_cache' = 0
        /\ (SteerRightHeld(pressed') /\ ~SteerLeftHeld(pressed') /\ steer_cache < 0)
             => steer_cache' = 0 ]_vars

\* steer-left was held with the cache on the right and the cache is now 0
C4_Witness ==
  /\ Ticked /\ KeyMode
  /\ SteerLeftHeld(pressed) /\ prev_zone \in {"pos", "ceil"} /\ steer_cache = 0

\* ------------------------------------------------------------------ C5
\* C5: a live or recording tick with no steering key held never increases
\* the absolute value of the cache and never flips its sign.
C5_DecayNoOvershoot ==
  [][ KeyTick /\ ~SteerLeftHeld(pressed') /\ ~SteerRightHeld(pressed') =>
        /\ Abs(steer_cache') <= Abs(steer_cache)
        /\ steer_cache > 0 => steer_cache' >= 0
        /\ steer_cache < 0 => steer_cache' <= 0 ]_vars

\* with no steering key held the cache came from the ceiling down to 0: the
\* decay step was larger than the cache and was cut at the centre
C5_Witness ==
  /\ Ticked /\ KeyMode
  /\ ~SteerLeftHeld(pressed) /\ ~SteerRightHeld(pressed)
  /\ prev_zone = "ceil" /\ steer_cache = 0

\* ------------------------------------------------------------------ C6
\* C6: from cache = 0, ticks with a steer-left key held give a non-increasing
\* sequence of cache values, and a cache of -0.7 stays -0.7 on every further
\* such tick.  (From 0 such ticks keep the cache <= 0, so the run is a run
\* of steps of the kind stated here, whatever the elapsed time of each.)
C6_EaseInLeft ==
  [][ KeyTick /\ SteerLeftHeld(pressed') /\ steer_cache <= 0 =>
        /\ steer_cache' <= steer_cache
        /\ steer_cache' <= 0
        /\ steer_cache = -SteerMax => steer_cache' = -SteerMax ]_vars

\* steer-left was held with the cache on the floor and the cache stayed there
C6_Witness ==
  /\ Ticked /\ KeyMode
  /\ SteerLeftHeld(pressed) /\ prev_zone = "floor" /\ steer_cache = -SteerMax

\* ------------------------------------------------------------------ C7
\* C7: every live or recording tick with the gear key held toggles the
\* vector, whether or not the key was held on the tick before: gear 1 /
\* reverse false becomes gear -1 / reverse true, and that becomes gear 1 /
\* reverse false again; a tick without the key leaves gear and reverse alone.
GearHeld(ks) == "K_q" \in ks

C7_GearToggle ==
  [][ KeyTick =>
        IF GearHeld(pressed')
        THEN /\ (control.gear = 1 /\ ~control.reverse) =>
                  (control'.gear = -1 /\ control'.reverse)
             /\ (control.gear = -1 /\ control.reverse) =>
                  (control'.gear = 1 /\ ~control'.reverse)
             /\ control'.reverse = ~control.reverse
        ELSE /\ control'.gear = control.gear
             /\ control'.reverse = control.reverse ]_vars

\* the gear key, held, brought the vector to gear 1 / reverse false: the
\* second toggle of a run
C7_Witness ==
  /\ Ticked /\ KeyMode
  /\ GearHeld(pressed) /\ control.gear = 1 /\ ~control.reverse

\* ------------------------------------------------------------------ C8
\* C8: after every live or recording tick throttle is 0.7 if an accelerate
\* key was held in that tick and 0.0 otherwise, brake is 1.0 if a decelerate
\* key was held and 0.0 otherwise, and hand_brake is the state of the
\* hand-brake key, whatever the vector, the cache and the elapsed time were.
AccelerateHeld(ks) == ks \cap {"K_UP", "K_w"} # {}

DecelerateHeld(ks) == ks \cap {"K_DOWN", "K_s"} # {}

C8_Memoryless ==
  Ticked /\ KeyMode =>
    /\ control.throttle = (IF AccelerateHeld(pressed) THEN 70000 ELSE 0)
    /\ control.brake = (IF DecelerateHeld(pressed) THEN 100000 ELSE 0)
    /\ control.hand_brake = ("K_SPACE" \in pressed)

\* the alternate accelerate key alone, on a tick that found the wheel turned
C8_Witness ==
  /\ Ticked /\ KeyMode
  /\ pressed = {"K_w"} /\ prev_zone = "ceil"
  /\ control.throttle = ThrottleOn /\ control.brake = 0 /\ ~control.hand_brake

\* ------------------------------------------------------------------ C9
\* C9: a recording controller writes the session log once in its lifetime,
\* at teardown: no tick touches the file, teardown opens it for writing
\* once, and a dump that completes leaves the file holding one document
\* whose records are all the records appended, one per tick, in order.
LogTeardown == Running /\ phase' = "closed" /\ mode = "log"

C9_WriteOnceAtTeardown ==
  /\ [](mode = "log" /\ Running => opens = 0)
  /\ [](mode = "log" /\ phase = "closed" => opens = 1)
  /\ [][ /\ (KeyTick /\ mode = "log") => (file' = file /\ opens' = opens)
         /\ LogTeardown =>
              /\ opens' = opens + 1
              /\ Len(log_data) = Len(rec)
              /\ del_io' = "ok" =>
                   file' = [kind |-> "json", doc |-> [records |-> log_data]] ]_vars

\* a recording controller of two ticks is closed and the file holds its dump
C9_Witness ==
  /\ phase = "closed" /\ mode = "log" /\ opens = 1 /\ del_io = "ok"
  /\ Len(rec) = 2
  /\ file.kind = "json" /\ Len(file.doc.records) = 2

\* ----------------------------------------------------------------- C10
\* C10: a live or playback controller never writes: its construction, its
\* ticks and its teardown leave the endpoint file as it was, and it never
\* opens the file for writing.
C10_NoWriteOutsideRecord ==
  [][ mode' \in {"normal", "playback"} => (file' = file /\ opens' = 0) ]_vars

\* a playback controller built on the old log was torn down and the file is
\* still the old log
C10_Witness ==
  /\ phase = "closed" /\ mode = "playback"
  /\ file = [kind |-> "json", doc |-> [records |-> <<OldRecord>>]]

\* ----------------------------------------------------------------- C11
\* C11: constructing a playback controller on a file that is no JSON does
\* not raise and leaves an empty list with the cursor at 0; its first tick
\* (and every tick) reports the exhausted log and returns the initial vector
\* unchanged.
C11_MalformedTolerated ==
  /\ phase = "failed" => file.kind # "malformed"
  /\ (Running /\ mode = "playback" /\ file.kind = "malformed") =>
       /\ control_list = <<>>
       /\ index = 0
       /\ control = DefaultControl
       /\ ret # <<>> => (exhausted /\ ret = <<DefaultControl>>)

\* a playback controller built on such a file has ticked
C11_Witness ==
  /\ Running /\ mode = "playback" /\ file.kind = "malformed"
  /\ control_list = <<>> /\ index = 0
  /\ exhausted /\ ret = <<DefaultControl>>

\* ----------------------------------------------------------------- C12
\* C12: when the write of a recording controller's teardown fails, the
\* teardown ends in an error its caller sees, never in a normal outcome.
C12_WriteFailureSurfaced ==
  (phase = "closed" /\ mode = "log" /\ del_io \in {"open_fails", "write_fails"})
    => caller = "error"

\* ----------------------------------------------------------------- C13
\* C13 as stated: the vector a key-driven tick produces is fixed by the steer
\* cache, the keys and the elapsed time alone, so it is the vector the same
\* tick produces from the initial vector.
C13_FixedByCacheKeysElapsed ==
  [][ KeyTick =>
        \E ms \in Elapsed :
          /\ steer_cache' = NextSteerCache(steer_cache, pressed', ms)
          /\ control' = ParseVehicleKeys(DefaultControl, steer_cache, pressed', ms)
    ]_vars

\* the part of a vector the key-driven update carries over
GearPart(ctrl) ==
  [DefaultControl EXCEPT !.gear = ctrl.gear, !.reverse = ctrl.reverse,
                         !.manual_gear_shift = ctrl.manual_gear_shift]

\* C13 (amended): the vector a key-driven tick produces is fixed by the steer
\* cache, the keys, the elapsed time and the previous gear, reverse and
\* manual_gear_shift; the previous throttle, steer, brake and hand brake have
\* no part in it.
C13_FixedUpToGear ==
  [][ KeyTick =>
        \E ms \in Elapsed :
          /\ steer_cache' = NextSteerCache(steer_cache, pressed', ms)
          /\ control' = ParseVehicleKeys(GearPart(control), steer_cache, pressed', ms)
    ]_vars

\* a tick with accelerate held and the gear key up has returned a vector in
\* reverse gear
C13_Witness ==
  /\ Ticked /\ KeyMode /\ ~GearHeld(pressed)
  /\ control.gear = -1 /\ control.reverse
  /\ control.brake = 0 /\ control.throttle = ThrottleOn

\* ----------------------------------------------------------------- C14
\* C14 as stated: the written document has the single field records and
\* each of its elements itself has the fields throttle, steer, brake,
\* hand_brake, reverse, manual_gear_shift and gear.
C14_FlatRecords ==
  flushed =>
    /\ DOMAIN file.doc = {"records"}
    /\ \A i \in 1..Len(file.doc.records) :
         ControlFields \subseteq DOMAIN file.doc.records[i]

\* C14 (amended): the written document has the single field records, one
\* element per tick in tick order; each element has the single field control,
\* whose value has exactly the seven fields, holding the vector of its tick.
C14_NestedRecords ==
  flushed =>
    /\ file.kind = "json"
    /\ DOMAIN file.doc = {"records"}
    /\ Len(file.doc.records) = Len(rec)
    /\ \A i \in 1..Len(file.doc.records) :
         /\ DOMAIN file.doc.records[i] = {"control"}
         /\ DOMAIN file.doc.records[i].control = ControlFields
         /\ \A f \in ControlFields : file.doc.records[i].control[f] = rec[i][f]

\* a session of two ticks with different vectors has been written
C14_Witness ==
  /\ flushed /\ file.kind = "json"
  /\ Len(file.doc.records) = 2
  /\ file.doc.records[1] # file.doc.records[2]
  /\ file.doc.records[2].control.reverse

\* ----------------------------------------------------------------- C15
\* C15: in a playback controller 0 <= cursor <= len(log) always; a tick
\* moves the cursor on by exactly 1 while it is below len(log) and leaves it
\* where it is at len(log), so it never goes back.
C15_CursorInvariant ==
  /\ []((Running /\ mode = "playback") =>
          (0 <= index /\ index <= Len(control_list)))
  /\ [][ PlaybackTick =>
           /\ control_list' = control_list
           /\ index' >= index
           /\ index' = IF index < Len(control_list) THEN index + 1 ELSE index
       ]_vars

\* the cursor went through a log of two entries and a further tick left it
\* at the end
C15_Witness ==
  /\ Running /\ mode = "playback"
  /\ Len(control_list) = 2 /\ index = 2 /\ exhausted

\* ----------------------------------------------------------------- C16
\* C16: the log of a recording controller is empty at construction, grows
\* by exactly one record per tick, record i holds the vector tick i returned,
\* and a tick leaves the records before it as they were.
C16_AppendOnly ==
  /\ []((Running /\ mode = "log") =>
          /\ Len(log_data) = Len(rec)
          /\ \A i \in 1..Len(log_data) : log_data[i] = [control |-> rec[i]])
  /\ [][ /\ (phase' = "running" /\ ~Running /\ mode' = "log") =>
              (log_data' = <<>> /\ rec' = <<>>)
         /\ (KeyTick /\ mode = "log") =>
              /\ Len(log_data') = Len(log_data) + 1
              /\ SubSeq(log_data', 1, Len(log_data)) = log_data
              /\ ret' = <<log_data'[Len(log_data')].control>>
              /\ rec' = Append(rec, ret'[1])
       ]_vars

\* two ticks were recorded, the second with another vector than the first
C16_Witness ==
  /\ Running /\ mode = "log"
  /\ Len(log_data) = 2
  /\ log_data[1] # log_data[2]
  /\ ret = <<log_data[2].control>>

\* ----------------------------------------------------------------- C17
\* C17: a playback tick is fixed by the loaded log and the cursor, whatever
\* keys are held and whatever time has passed: below the end it returns
\* log[cursor] as loaded and moves the cursor on, at the end it returns the
\* vector it had; it leaves the steer cache alone and appends to no log.
C17_PlaybackIgnoresInput ==
  [][ PlaybackTick =>
        /\ IF index < Len(control_list)
           THEN control' = control_list[index + 1] /\ index' = index + 1
           ELSE control' = control /\ index' = index
        /\ ret' = <<control'>>
        /\ steer_cache' = steer_cache
        /\ log_data' = log_data
        /\ control_list' = control_list
        /\ file' = file
    ]_vars

\* a playback tick has returned a recorded vector that steers, and the steer
\* cache and the log of the controller are as constructed
C17_Witness ==
  /\ Running /\ mode = "playback"
  /\ index = 1 /\ ret = <<control_list[1]>>
  /\ control_list[1].steer # 0
  /\ steer_cache = 0 /\ log_data = <<>>

\* ----------------------------------------------------------------- C18
\* C18: in a live or recording controller reverse holds exactly when
\* gear < 0 and gear is -1, 0 or 1; a tick with the gear key held leaves
\* gear other than 0, and no later tick brings it back to 0.
C18_GearReverseConsistent ==
  /\ []((Running /\ KeyMode) =>
          /\ control.reverse <=> (control.gear < 0)
          /\ control.gear \in {-1, 0, 1})
  /\ [][ KeyTick =>
           /\ GearHeld(pressed') => control'.gear # 0
           /\ control.gear # 0 => control'.gear # 0
       ]_vars

\* the gear key was held on two ticks at least and is up now: the gear is
\* forward
C18_Witness ==
  /\ Ticked /\ KeyMode /\ ~GearHeld(pressed)
  /\ control.gear = 1 /\ ~control.reverse

\* ----------------------------------------------------------------- C19
\* C19: a tick of a recording controller returns the vector, and leaves the
\* steer cache, that the tick of a live controller gives from the same
\* vector, steer cache, keys and elapsed time; so the two agree after every
\* tick of a common input sequence.
C19_RecordingDoesNotPerturb ==
  [][ KeyTick =>
        \E ms \in Elapsed :
          /\ steer_cache' = NextSteerCache(steer_cache, pressed', ms)
          /\ control' = ParseVehicleKeys(control, steer_cache, pressed', ms)
          /\ ret' = <<control'>>
    ]_vars

\* a recording controller has recorded two ticks and holds a steer cache and
\* a gear other than the initial ones
C19_Witness ==
  /\ Running /\ mode = "log" /\ Len(log_data) = 2
  /\ steer_cache # 0 /\ control.reverse
  /\ ret = <<control>>

\* ----------------------------------------------------------------- C20
\* C20: in a live or recording tick with both steering keys held the cache
\* moves as with steer-left alone: to 0 from the right, to -0.05 from 0,
\* and down by the increment (no further than -0.7) from the left.
C20_LeftOverRight ==
  [][ (KeyTick /\ SteerLeftHeld(pressed') /\ SteerRightHeld(pressed')) =>
        /\ steer_cache > 0 => steer_cache' = 0
        /\ steer_cache = 0 => steer_cache' = -SteerJump
        /\ steer_cache < 0 =>
             \E ms \in Elapsed :
               steer_cache' = Max(-SteerMax, steer_cache - SteerIncrement(ms))
    ]_vars

\* both steering keys were held with the cache at 0 and the cache is now
\* -0.05
C20_Witness ==
  /\ Ticked /\ KeyMode
  /\ SteerLeftHeld(pressed) /\ SteerRightHeld(pressed)
  /\ prev_zone = "zero" /\ steer_cache = -SteerJump

\* ----------------------------------------------------------------- C21
\* a decay run is under way
InRun == run_ms # F64Zero

\* n >= ceil(0.7 / (1.4 * 3e-4 * ms)), the numbers taken as written:
\* 3 * n * ms >= 5000
TicksSuffice(n, ms) ==
  LET p == BigMulSmall(BigMulSmall(ms.m, 3), n)
      l == IF ms.e > 0 THEN BigShl(p, ms.e) ELSE p
      r == IF ms.e < 0 THEN BigShl(<<5000>>, -ms.e) ELSE <<5000>>
  IN  ~BigLess(l, r)

\* C21 as stated: in a run of ticks with no steering key held and one
\* elapsed time > 0, the cache is exactly 0 after
\* ceil(0.7 / (1.4 * 3e-4 * elapsed_ms)) ticks at the latest, whatever it
\* was at the start, and it is 0 on every tick of the run after that.
C21_DecayReachesZero ==
  /\ []((InRun /\ TicksSuffice(run_ticks, run_ms)) => cache64 = F64Zero)
  /\ (InRun ~> (cache64 = F64Zero))
  /\ [][ (InRun /\ cache64 = F64Zero) => cache64' = F64Zero ]_vars

\* the elapsed time is a millisecond at least
WholeMs(ms) == ~F64Less(ms, [s |-> 1, m |-> <<1>>, e |-> 0])

\* C21 (amended): in a run of ticks with no steering key held and one
\* elapsed time of a millisecond at least, the cache is exactly 0 after
\* ceil(0.7 / (1.4 * 3e-4 * elapsed_ms)) + 1 ticks at the latest, whatever
\* it was at the start, and it is 0 on every tick of the run after that.
C21_DecayReachesZeroOneLater ==
  /\ []((InRun /\ WholeMs(run_ms) /\ TicksSuffice(run_ticks - 1, run_ms))
          => cache64 = F64Zero)
  /\ ((InRun /\ WholeMs(run_ms)) ~> (cache64 = F64Zero))
  /\ [][ (InRun /\ cache64 = F64Zero) => cache64' = F64Zero ]_vars

\* a run at 238.0952380952381 ms has made the eight ticks that
\* ceil(0.7 / (1.4 * 3e-4 * elapsed_ms)) + 1 comes to, and the cache is 0
C21_Witness ==
  /\ run_ms = [s |-> 1, m |-> <<3121, 24966, 3120, 238>>, e |-> -45]
  /\ run_ticks = 8
  /\ TicksSuffice(7, run_ms) /\ ~TicksSuffice(6, run_ms)
  /\ cache64 = F64Zero

====
